---- MODULE Spec2Model ----
(***************************************************************************)
(* Model of script.js: the client-side behaviour of a single-page          *)
(* portfolio site.  The state is the part of the DOM, the session history  *)
(* and the module-level variables that the script reads and writes; there  *)
(* is one action per event handler or timer callback.                      *)
(***************************************************************************)
EXTENDS Integers, Sequences, FiniteSets, TLC

(***************************************************************************)
(* Bounds of the model.                                                    *)
(***************************************************************************)
\* showView calls explored per page load (the startup call included)
MaxCalls == 3
\* number of .project-slide-item elements in the markup
NumSlides == 3
\* contact-form sends that may be awaiting the email service at once
MaxInFlight == 2

(***************************************************************************)
(* Markup the script relies on.                                            *)
(***************************************************************************)
\* script.js 17: the views of the page; each is an element view-<id>
Views == {"home", "projects", "about"}
\* views that have a navigation indicator link-<id>
NavLinks == {"home", "projects"}
\* identifiers a navigation intent may carry: the views and an unknown one
Ids == Views \cup {"nope"}
\* abscissas a touch may start or end at
TouchXs == {0, 40, 100}
\* script.js 763: a drag shorter than this many pixels is ignored
DragThreshold == 50
\* script.js 81: Math.floor(Math.random() * 8) + 2
IncrementSpan == 8
MinIncrement == 2
\* script.js 84: the counter stops here
CounterTarget == 100

NULL == "null"
\* a history entry that belongs to another site
EXT == <<"external">>
NoTarget == "undefined"

ViewSections == {"view-" \o v : v \in Views}
NavItems == {"link-" \o v : v \in NavLinks}

\* document.getElementById over the elements the script looks up by id
GetElementById(id) == IF id \in ViewSections \cup NavItems THEN id ELSE NULL

\* elements the script looks up once, by id, that a page may lack
Elements ==
    {"preloader", "hero-aesthetic", "mobile-menu-trigger", "nav-overlay",
     "contact-form", "projects-track", "projects-prev"}

\* the two elements toggleMobileMenu marks active
MenuElements == {"mobile-menu-trigger", "nav-overlay"}

\* The top-level statements of the script that set a feature up, in source
\* order: the element the statement dereferences ("" when none) and whether
\* the statement tests for it first.
Sections ==
    << [feature |-> "preloader", needs |-> "preloader", guarded |-> TRUE],
       [feature |-> "startup", needs |-> "", guarded |-> TRUE],
       [feature |-> "hero", needs |-> "hero-aesthetic", guarded |-> TRUE],
       [feature |-> "interactionsWrapper", needs |-> "", guarded |-> TRUE],
       [feature |-> "navbarScroll", needs |-> "", guarded |-> TRUE],
       [feature |-> "menuTrigger", needs |-> "mobile-menu-trigger", guarded |-> FALSE],
       [feature |-> "contactForm", needs |-> "contact-form", guarded |-> FALSE],
       [feature |-> "sliderLoad", needs |-> "", guarded |-> TRUE],
       [feature |-> "sliderWrapper", needs |-> "", guarded |-> TRUE] >>

RECURSIVE ScriptRun(_, _, _)
\* The features set up by running statements k, k+1, ... on a page lacking
\* absent: a guarded statement whose element is absent is skipped, an
\* unguarded one throws a TypeError that ends the script.
ScriptRun(k, absent, done) ==
    IF k > Len(Sections) THEN done
    ELSE LET sec == Sections[k]
         IN  IF sec.needs \in absent
             THEN IF sec.guarded THEN ScriptRun(k + 1, absent, done) ELSE done
             ELSE ScriptRun(k + 1, absent, done \cup {sec.feature})

\* the fragments a visitor may open the page with (URL tokens after the path)
InitialHashes ==
    { <<>>, <<"#", "home">>, <<"#", "about">>, <<"#", "projects">>,
      <<"#", "nope">>, <<"#", "#", "about">> }

VARIABLES
    onSite,              \* the page is the current document
    history,             \* session history: one URL per entry
    histIdx,             \* index of the current entry
    phase,               \* "parsed", "ready" (DOMContentLoaded fired), "loaded"
    viewActive,          \* .view-section elements carrying class active
    navActive,           \* .nav-item elements carrying class active
    scrollY,             \* 0 at the top of the page
    timers,              \* pending setTimeout callbacks, in registration order
    bindings,            \* runs of initRefinedInteractions so far
    calls,               \* showView calls since the page was loaded
    lastCall,            \* the most recent showView call: argument and steps
    currentProjectIndex,
    closures,            \* one per initProjectsSlider run: its isDragging, startX
    prevDisabled,        \* #projects-prev in the document is disabled
    nextDisabled,        \* #projects-next in the document is disabled
    isMenuOpen,
    menuActive,          \* menuTrigger and navOverlay carry class active
    messageModal,        \* #message-modal carries class active
    errorModal,          \* #error-modal carries class active
    inFlight,            \* emailjs.sendForm promises not yet settled
    formFilled,          \* the contact form holds user input
    missing,             \* elements the script looks up that the markup lacks
    hoverTweens,         \* mouseenter listeners run by the latest mouseenter
    lastIntent,          \* the view the latest navigation intent naming a view asked for
    count,               \* initPreloader: the counter
    isLoaded,            \* initPreloader: the load event was observed
    counterInterval,     \* the 20 ms interval is registered
    checkLoad,           \* the 50 ms interval is registered
    finishCalls,         \* calls of finishLoading
    percentText          \* .loader-progress innerText

viewVars == <<viewActive, navActive, scrollY, calls, lastCall>>
histVars == <<onSite, history, histIdx>>
sliderVars == <<currentProjectIndex, closures, prevDisabled, nextDisabled>>
menuVars == <<isMenuOpen, menuActive>>
formVars == <<messageModal, errorModal, inFlight, formFilled>>
domVars == <<missing, hoverTweens>>
preVars == <<count, isLoaded, counterInterval, checkLoad, finishCalls, percentText>>
vars == <<onSite, history, histIdx, phase, viewActive, navActive, scrollY,
          timers, bindings, calls, lastCall, currentProjectIndex, closures,
          prevDisabled, nextDisabled, isMenuOpen, menuActive, messageModal,
          errorModal, inFlight, formFilled, missing, hoverTweens, lastIntent,
          count, isLoaded, counterInterval, checkLoad, finishCalls, percentText>>

(***************************************************************************)
(* Strings.                                                                *)
(***************************************************************************)
RECURSIVE Concat(_)
\* the string a sequence of tokens spells
Concat(tokens) ==
    IF tokens = <<>> THEN "" ELSE Head(tokens) \o Concat(Tail(tokens))

RECURSIVE ReplaceFirst(_, _)
\* String.prototype.replace(tok, ''): drops the first occurrence only
ReplaceFirst(tokens, tok) ==
    IF tokens = <<>> THEN <<>>
    ELSE IF Head(tokens) = tok THEN Tail(tokens)
    ELSE <<Head(tokens)>> \o ReplaceFirst(Tail(tokens), tok)

\* window.location.hash
LocationHash == history[histIdx]

\* the features the script set up on this page
Installed == ScriptRun(1, missing, {})

(***************************************************************************)
(* Preloader.                                                              *)
(***************************************************************************)
\* Math.floor(Math.random() * 8): Math.random() is in [0, 1)
RandomFloors == 0..(IncrementSpan - 1)

\* the text the markup gives .loader-progress
MarkupText == <<>>

\* count + '%'
PercentText(c) == <<c, "%">>

\* the variables of the initPreloader closure and what it displays
PreloaderState ==
    [count |-> count, isLoaded |-> isLoaded, counterInterval |-> counterInterval,
     checkLoad |-> checkLoad, finishCalls |-> finishCalls, percentText |-> percentText]

\* initPreloader() up to the registration of the counter interval, on a
\* document in the given readyState; it returns at once when an element it
\* needs is absent
InitPreloader(absent, readyState) ==
    IF "preloader" \in absent
    THEN [count |-> 0, isLoaded |-> FALSE, counterInterval |-> FALSE,
          checkLoad |-> FALSE, finishCalls |-> 0, percentText |-> MarkupText]
    ELSE [count |-> 0, isLoaded |-> (readyState = "complete"), counterInterval |-> TRUE,
          checkLoad |-> FALSE, finishCalls |-> 0, percentText |-> MarkupText]

\* variant: the counter is not cut back to the target
CounterCallbackUnclamped(p, floor) ==
    LET c == p.count + floor + MinIncrement
    IN  IF c >= CounterTarget
        THEN [p EXCEPT !.count = c, !.counterInterval = FALSE, !.checkLoad = TRUE,
                       !.percentText = PercentText(c)]
        ELSE [p EXCEPT !.count = c, !.percentText = PercentText(c)]

\* callback of counterInterval, Math.floor(Math.random() * 8) being floor
CounterCallback(p, floor) ==
    LET c == p.count + floor + MinIncrement
    IN  IF c >= CounterTarget
        THEN [p EXCEPT !.count = CounterTarget, !.counterInterval = FALSE,
                       !.checkLoad = TRUE,
                       !.percentText = PercentText(CounterTarget)]
        ELSE [p EXCEPT !.count = c, !.percentText = PercentText(c)]

\* callback of checkLoad: clearInterval and finishLoading once the load was observed
CheckLoadCallback(p) ==
    IF p.isLoaded
    THEN [p EXCEPT !.checkLoad = FALSE, !.finishCalls = @ + 1]
    ELSE p

\* variant: the load listener of initPreloader does not record the event
OnLoadObservedDropped(p) == p

\* the load listener initPreloader registers on a document not yet complete
OnLoadObserved(p) ==
    IF "preloader" \in Installed THEN [p EXCEPT !.isLoaded = TRUE] ELSE p

SetPreloader(p) ==
    /\ count' = p.count
    /\ isLoaded' = p.isLoaded
    /\ counterInterval' = p.counterInterval
    /\ checkLoad' = p.checkLoad
    /\ finishCalls' = p.finishCalls
    /\ percentText' = p.percentText

\* the 20 ms interval comes due
CounterTick ==
    /\ onSite /\ counterInterval
    /\ \E floor \in RandomFloors : SetPreloader(CounterCallback(PreloaderState, floor))
    /\ UNCHANGED <<lastIntent, domVars, histVars, phase, viewVars, timers, bindings,
                   sliderVars, menuVars, formVars>>

\* the 50 ms interval comes due
CheckLoadTick ==
    /\ onSite /\ checkLoad
    /\ SetPreloader(CheckLoadCallback(PreloaderState))
    /\ UNCHANGED <<lastIntent, domVars, histVars, phase, viewVars, timers, bindings,
                   sliderVars, menuVars, formVars>>

(***************************************************************************)
(* View management.                                                        *)
(***************************************************************************)
\* variant: the address bar is never written
ReplaceStateDropped(hist, idx, url) == hist

\* variant: history.pushState, a new entry after the current one
PushState(hist, idx, url) == SubSeq(hist, 1, idx) \o <<url>>

\* history.replaceState(null, null, url)
ReplaceState(hist, idx, url) == [hist EXCEPT ![idx] = url]

\* the part of the page showView reads and writes
PageState ==
    [viewActive |-> viewActive, navActive |-> navActive, history |-> history,
     scrollY |-> scrollY, timers |-> timers, log |-> <<>>]

Timer(fn, arg, delay) == [fn |-> fn, arg |-> arg, delay |-> delay]

\* variant: the views shown before are not hidden first
OriginalShowViewKeepsOthers(s, viewId) ==
    LET targetView == GetElementById("view-" \o viewId)
    IN  IF targetView # NULL
        THEN [s EXCEPT !.viewActive = @ \cup {targetView},
                       !.history = ReplaceState(@, histIdx, <<"#", viewId>>),
                       !.scrollY = 0,
                       !.log = @ \o <<"activateView", "replaceState", "scrollTo",
                                      "gsapFrom", "refresh">>]
        ELSE s

\* variant: the view-specific animation is started before the view is shown
OriginalShowViewHookFirst(s, viewId) ==
    LET hidden == [s EXCEPT !.viewActive = @ \ ViewSections,
                            !.navActive = @ \ NavItems,
                            !.log = @ \o <<"hideViews", "clearNav">>]
        targetView == GetElementById("view-" \o viewId)
        targetLink == GetElementById("link-" \o viewId)
    IN  IF targetView # NULL
        THEN [hidden EXCEPT
                !.viewActive = @ \cup {targetView},
                !.navActive = IF targetLink # NULL THEN @ \cup {targetLink} ELSE @,
                !.history = ReplaceState(@, histIdx, <<"#", viewId>>),
                !.scrollY = 0,
                !.log = @ \o (IF viewId = "about" THEN <<"animateBadge">> ELSE <<>>)
                          \o <<"activateView">>
                          \o (IF targetLink # NULL THEN <<"activateLink">> ELSE <<>>)
                          \o <<"replaceState", "scrollTo", "gsapFrom", "refresh">>]
        ELSE hidden

\* variant: the navigation items active before keep their class
OriginalShowViewKeepsNav(s, viewId) ==
    LET hidden == [s EXCEPT !.viewActive = @ \ ViewSections,
                            !.log = @ \o <<"hideViews">>]
        targetView == GetElementById("view-" \o viewId)
        targetLink == GetElementById("link-" \o viewId)
    IN  IF targetView # NULL
        THEN [hidden EXCEPT
                !.viewActive = @ \cup {targetView},
                !.navActive = IF targetLink # NULL THEN @ \cup {targetLink} ELSE @,
                !.history = ReplaceState(@, histIdx, <<"#", viewId>>),
                !.scrollY = 0,
                !.log = @ \o <<"activateView">>
                          \o (IF targetLink # NULL THEN <<"activateLink">> ELSE <<>>)
                          \o <<"replaceState", "scrollTo", "gsapFrom">>
                          \o (IF viewId = "about" THEN <<"animateBadge">> ELSE <<>>)
                          \o <<"refresh">>]
        ELSE hidden

\* variant: the scroll reset and the trigger refresh are outside the test
\* for the target view
OriginalShowViewScrollsAlways(s, viewId) ==
    LET hidden == [s EXCEPT !.viewActive = @ \ ViewSections,
                            !.navActive = @ \ NavItems,
                            !.log = @ \o <<"hideViews", "clearNav">>]
        targetView == GetElementById("view-" \o viewId)
        targetLink == GetElementById("link-" \o viewId)
    IN  IF targetView # NULL
        THEN [hidden EXCEPT
                !.viewActive = @ \cup {targetView},
                !.navActive = IF targetLink # NULL THEN @ \cup {targetLink} ELSE @,
                !.history = ReplaceState(@, histIdx, <<"#", viewId>>),
                !.scrollY = 0,
                !.log = @ \o <<"activateView">>
                          \o (IF targetLink # NULL THEN <<"activateLink">> ELSE <<>>)
                          \o <<"replaceState", "scrollTo", "gsapFrom">>
                          \o (IF viewId = "about" THEN <<"animateBadge">> ELSE <<>>)
                          \o <<"refresh">>]
        ELSE [hidden EXCEPT !.scrollY = 0,
                            !.log = @ \o <<"scrollTo", "refresh">>]

\* function showView(viewId), as declared
OriginalShowView(s, viewId) ==
    LET hidden == [s EXCEPT !.viewActive = @ \ ViewSections,
                            !.navActive = @ \ NavItems,
                            !.log = @ \o <<"hideViews", "clearNav">>]
        targetView == GetElementById("view-" \o viewId)
        targetLink == GetElementById("link-" \o viewId)
    IN  IF targetView # NULL
        THEN [hidden EXCEPT
                !.viewActive = @ \cup {targetView},
                !.navActive = IF targetLink # NULL THEN @ \cup {targetLink} ELSE @,
                !.history = ReplaceState(@, histIdx, <<"#", viewId>>),
                !.scrollY = 0,
                !.log = @ \o <<"activateView">>
                          \o (IF targetLink # NULL THEN <<"activateLink">> ELSE <<>>)
                          \o <<"replaceState", "scrollTo", "gsapFrom">>
                          \o (IF viewId = "about" THEN <<"animateBadge">> ELSE <<>>)
                          \o <<"refresh">>]
        ELSE hidden

\* showView as reassigned after initRefinedInteractions is declared
InteractionsShowView(s, viewId) ==
    LET s1 == OriginalShowView(s, viewId)
    IN  [s1 EXCEPT !.timers = Append(@, Timer("initRefinedInteractions", NoTarget, 100)),
                   !.log = @ \o <<"setTimeout:initRefinedInteractions">>]

\* variant: the second wrapper calls the declared function as well as the first wrapper
ShowViewCallsOriginalAgain(s, viewId) ==
    LET s1 == OriginalShowView(InteractionsShowView(s, viewId), viewId)
    IN  IF viewId = "projects"
        THEN [s1 EXCEPT !.timers = Append(@, Timer("initProjectsSlider", NoTarget, 100)),
                        !.log = @ \o <<"setTimeout:initProjectsSlider">>]
        ELSE s1

\* variant: the second wrapper schedules the slider set-up for every identifier
ShowViewSchedulesSliderAlways(s, viewId) ==
    LET s1 == InteractionsShowView(s, viewId)
    IN  [s1 EXCEPT !.timers = Append(@, Timer("initProjectsSlider", NoTarget, 100)),
                   !.log = @ \o <<"setTimeout:initProjectsSlider">>]

\* showView as reassigned at the end of the script: the function every caller reaches
ShowView(s, viewId) ==
    LET s1 == InteractionsShowView(s, viewId)
    IN  IF viewId = "projects"
        THEN [s1 EXCEPT !.timers = Append(@, Timer("initProjectsSlider", NoTarget, 100)),
                        !.log = @ \o <<"setTimeout:initProjectsSlider">>]
        ELSE s1

\* the function the global name showView holds once the script has run
GlobalShowView(s, viewId) ==
    IF "sliderWrapper" \in Installed
    THEN ShowView(s, viewId)
    ELSE InteractionsShowView(s, viewId)

\* one call of the global showView on page state s
CallShowView(s, viewId) ==
    LET r == GlobalShowView(s, viewId)
    IN  /\ viewActive' = r.viewActive
        /\ navActive' = r.navActive
        /\ history' = r.history
        /\ scrollY' = r.scrollY
        /\ timers' = r.timers
        /\ calls' = calls + 1
        /\ lastCall' = [id |-> viewId, before |-> s.viewActive, log |-> r.log]

\* deferred showView calls the mobile menu has scheduled
PendingShowViews == Cardinality({i \in 1..Len(timers) : timers[i].fn = "showView"})

\* variant: the fragment is ignored at startup
StartupViewAlwaysHome == "home"

\* the view the DOMContentLoaded handler shows
StartupView ==
    LET currentHash == Concat(ReplaceFirst(LocationHash, "#"))
    IN  IF currentHash # "" /\ GetElementById("view-" \o currentHash) # NULL
        THEN currentHash
        ELSE "home"

\* window DOMContentLoaded listener
DOMContentLoaded ==
    /\ onSite /\ phase = "parsed"
    /\ phase' = "ready"
    /\ CallShowView(PageState, StartupView)
    /\ lastIntent' = StartupView
    /\ UNCHANGED <<preVars, domVars, onSite, histIdx, bindings, sliderVars, menuVars, formVars>>

\* a navigation intent from the page: showView(id)
NavClick(id) ==
    /\ onSite /\ phase # "parsed"
    /\ calls + PendingShowViews < MaxCalls
    /\ CallShowView(PageState, id)
    /\ lastIntent' = IF GetElementById("view-" \o id) # NULL THEN id ELSE lastIntent
    /\ UNCHANGED <<preVars, domVars, onSite, histIdx, phase, bindings, sliderVars, menuVars, formVars>>

\* the visitor scrolls down
Scroll ==
    /\ onSite /\ phase # "parsed" /\ scrollY = 0
    /\ scrollY' = 1
    /\ UNCHANGED <<lastIntent, preVars, domVars, histVars, phase, viewActive, navActive, timers, bindings, calls,
                   lastCall, sliderVars, menuVars, formVars>>

(***************************************************************************)
(* Projects slider.                                                        *)
(***************************************************************************)
Abs(n) == IF n < 0 THEN 0 - n ELSE n

\* the slider state the handlers share
SliderState ==
    [idx |-> currentProjectIndex, prev |-> prevDisabled, next |-> nextDisabled]

\* updateSlider of the i-th closure, n closures existing.  Each closure styles
\* the buttons it cloned; only the latest clones are in the document.
UpdateSlider(st, i, n) ==
    IF i = n
    THEN [st EXCEPT !.prev = (st.idx = 0), !.next = (st.idx = NumSlides - 1)]
    ELSE st

\* click listener of the next button
NextHandler(st, i, n) ==
    IF st.idx < NumSlides - 1
    THEN UpdateSlider([st EXCEPT !.idx = @ + 1], i, n)
    ELSE st

\* click listener of the previous button
PrevHandler(st, i, n) ==
    IF st.idx > 0
    THEN UpdateSlider([st EXCEPT !.idx = @ - 1], i, n)
    ELSE st

\* variant: a drag moves the index without looking at the ends
TouchEndHandlerUnclamped(st, c, i, n, endX) ==
    IF ~c.isDragging THEN st
    ELSE LET diff == c.startX - endX
         IN  IF Abs(diff) > DragThreshold
             THEN UpdateSlider([st EXCEPT !.idx = IF diff > 0 THEN @ + 1 ELSE @ - 1], i, n)
             ELSE st

\* touchend listener of the i-th closure c
TouchEndHandler(st, c, i, n, endX) ==
    IF ~c.isDragging THEN st
    ELSE LET diff == c.startX - endX
         IN  IF Abs(diff) > DragThreshold
             THEN LET moved ==
                        IF diff > 0 /\ st.idx < NumSlides - 1
                        THEN [st EXCEPT !.idx = @ + 1]
                        ELSE IF diff < 0 /\ st.idx > 0
                        THEN [st EXCEPT !.idx = @ - 1]
                        ELSE st
                  IN  UpdateSlider(moved, i, n)
             ELSE st

RECURSIVE TouchEndFrom(_, _, _)
\* the track's touchend listeners i, i+1, ... run in registration order
TouchEndFrom(st, i, endX) ==
    IF i > Len(closures) THEN st
    ELSE TouchEndFrom(TouchEndHandler(st, closures[i], i, Len(closures), endX),
                      i + 1, endX)

SetSlider(st) ==
    /\ currentProjectIndex' = st.idx
    /\ prevDisabled' = st.prev
    /\ nextDisabled' = st.next

\* initProjectsSlider(): clones the buttons, adds a closure with its own
\* listeners on the clones, the track and the window, and updates once
\* (it returns when the track is absent and throws, before binding anything,
\* when a button is)
InitProjectsSlider ==
    IF {"projects-track", "projects-prev"} \cap missing # {}
    THEN UNCHANGED sliderVars
    ELSE /\ closures' = Append(closures, [isDragging |-> FALSE, startX |-> 0])
         /\ SetSlider(UpdateSlider(SliderState, Len(closures) + 1, Len(closures) + 1))

\* click on #projects-next: only the latest clone is in the document
NextClick ==
    /\ onSite /\ closures # <<>>
    /\ SetSlider(NextHandler(SliderState, Len(closures), Len(closures)))
    /\ UNCHANGED <<lastIntent, preVars, domVars, histVars, phase, viewVars, timers, bindings, closures,
                   menuVars, formVars>>

\* click on #projects-prev
PrevClick ==
    /\ onSite /\ closures # <<>>
    /\ SetSlider(PrevHandler(SliderState, Len(closures), Len(closures)))
    /\ UNCHANGED <<lastIntent, preVars, domVars, histVars, phase, viewVars, timers, bindings, closures,
                   menuVars, formVars>>

\* touchstart on the track: every closure's listener records the abscissa
TouchStart(x) ==
    /\ onSite /\ closures # <<>>
    /\ closures' = [i \in 1..Len(closures) |-> [isDragging |-> TRUE, startX |-> x]]
    /\ UNCHANGED <<lastIntent, preVars, domVars, histVars, phase, viewVars, timers, bindings, currentProjectIndex,
                   prevDisabled, nextDisabled, menuVars, formVars>>

\* touchend on the track
TouchEnd(x) ==
    /\ onSite /\ closures # <<>>
    /\ \E i \in 1..Len(closures) : closures[i].isDragging
    /\ SetSlider(TouchEndFrom(SliderState, 1, x))
    /\ closures' = [i \in 1..Len(closures) |-> [closures[i] EXCEPT !.isDragging = FALSE]]
    /\ UNCHANGED <<lastIntent, preVars, domVars, histVars, phase, viewVars, timers, bindings, menuVars, formVars>>

\* window resize: every closure's updateSlider runs
Resize ==
    /\ onSite /\ closures # <<>>
    /\ SetSlider(UpdateSlider(SliderState, Len(closures), Len(closures)))
    /\ UNCHANGED <<lastIntent, preVars, domVars, histVars, phase, viewVars, timers, bindings, closures,
                   menuVars, formVars>>

\* the window load event: the listener of initPreloader, then the one
\* registered at the end of the script
WindowLoad ==
    /\ onSite /\ phase = "ready"
    /\ phase' = "loaded"
    /\ SetPreloader(OnLoadObserved(PreloaderState))
    /\ IF "sliderLoad" \in Installed THEN InitProjectsSlider ELSE UNCHANGED sliderVars
    /\ UNCHANGED <<lastIntent, domVars, histVars, viewVars, timers, bindings, menuVars, formVars>>

(***************************************************************************)
(* Timers.                                                                 *)
(***************************************************************************)
RemoveAt(seq, i) == SubSeq(seq, 1, i - 1) \o SubSeq(seq, i + 1, Len(seq))

\* a timer is due before every timer registered later with the same or a longer delay
CanFire(i) == \A j \in 1..(i - 1) : timers[j].delay > timers[i].delay

\* setTimeout(initRefinedInteractions, 100) comes due
FireInteractions(i) ==
    /\ timers[i].fn = "initRefinedInteractions"
    /\ timers' = RemoveAt(timers, i)
    /\ bindings' = bindings + 1
    /\ UNCHANGED <<lastIntent, preVars, domVars, histVars, phase, viewVars, sliderVars, menuVars, formVars>>

\* setTimeout(initProjectsSlider, 100) comes due
FireSlider(i) ==
    /\ timers[i].fn = "initProjectsSlider"
    /\ timers' = RemoveAt(timers, i)
    /\ InitProjectsSlider
    /\ UNCHANGED <<lastIntent, preVars, domVars, histVars, phase, viewVars, bindings, menuVars, formVars>>

\* variant: the deferred call repeats (the timer stays registered)
FireShowViewKeepsTimer(i) ==
    /\ timers[i].fn = "showView"
    /\ CallShowView(PageState, timers[i].arg)
    /\ UNCHANGED <<lastIntent, preVars, domVars, onSite, histIdx, phase, bindings, sliderVars, menuVars, formVars>>

\* setTimeout(() => showView(targetView), 500) comes due
FireShowView(i) ==
    /\ timers[i].fn = "showView"
    /\ CallShowView([PageState EXCEPT !.timers = RemoveAt(timers, i)], timers[i].arg)
    /\ UNCHANGED <<lastIntent, preVars, domVars, onSite, histIdx, phase, bindings, sliderVars, menuVars, formVars>>

\* a pending 100 ms timer comes due
FireTimer ==
    /\ onSite
    /\ \E i \in 1..Len(timers) :
         /\ CanFire(i)
         /\ (FireInteractions(i) \/ FireSlider(i))

\* a pending 500 ms timer of the mobile menu comes due
FireMenuTimer ==
    /\ onSite
    /\ \E i \in 1..Len(timers) : CanFire(i) /\ FireShowView(i)

(***************************************************************************)
(* Mobile menu.                                                            *)
(***************************************************************************)
\* the state toggleMobileMenu reads and writes
MenuState == [isMenuOpen |-> isMenuOpen, menuActive |-> menuActive, timers |-> timers]

\* variant: closing the menu forgets the selected view
ToggleMenuStateDropsTarget(m, targetView) ==
    IF ~m.isMenuOpen
    THEN [m EXCEPT !.menuActive = @ \cup MenuElements, !.isMenuOpen = TRUE]
    ELSE [m EXCEPT !.menuActive = @ \ MenuElements, !.isMenuOpen = FALSE]

\* variant: closing the menu for a selected view returns before the flag is flipped
ToggleMenuStateKeepsFlagOnSelect(m, targetView) ==
    IF ~m.isMenuOpen
    THEN [m EXCEPT !.menuActive = @ \cup MenuElements, !.isMenuOpen = TRUE]
    ELSE IF targetView # NoTarget
    THEN [m EXCEPT !.menuActive = @ \ MenuElements,
                   !.timers = Append(@, Timer("showView", targetView, 500))]
    ELSE [m EXCEPT !.menuActive = @ \ MenuElements, !.isMenuOpen = FALSE]

\* function toggleMobileMenu(targetView).  A class change on an absent
\* element throws, which ends the call before the statements after it.
ToggleMenuState(m, targetView) ==
    IF "mobile-menu-trigger" \in missing THEN m
    ELSE IF "nav-overlay" \in missing
    THEN [m EXCEPT !.menuActive = IF ~m.isMenuOpen
                                  THEN @ \cup {"mobile-menu-trigger"}
                                  ELSE @ \ {"mobile-menu-trigger"}]
    ELSE IF ~m.isMenuOpen
    THEN [m EXCEPT !.menuActive = @ \cup MenuElements,
                   !.isMenuOpen = TRUE]
    ELSE [m EXCEPT !.menuActive = @ \ MenuElements,
                   !.timers = IF targetView # NoTarget
                              THEN Append(@, Timer("showView", targetView, 500))
                              ELSE @,
                   !.isMenuOpen = FALSE]

\* a call of toggleMobileMenu: the trigger's click listener (no argument) or
\* a menu item (the view it names)
ToggleMobileMenu(targetView) ==
    /\ onSite /\ phase # "parsed"
    /\ targetView = NoTarget => "menuTrigger" \in Installed
    /\ (isMenuOpen /\ targetView # NoTarget) => calls + PendingShowViews < MaxCalls
    /\ LET m == ToggleMenuState(MenuState, targetView)
       IN  /\ isMenuOpen' = m.isMenuOpen
           /\ menuActive' = m.menuActive
           /\ timers' = m.timers
           /\ lastIntent' = IF m.timers # timers
                                /\ GetElementById("view-" \o targetView) # NULL
                             THEN targetView
                             ELSE lastIntent
    /\ UNCHANGED <<preVars, domVars, histVars, phase, viewVars, bindings, sliderVars, formVars>>

(***************************************************************************)
(* Hover interactions.                                                     *)
(***************************************************************************)
\* mouseenter listeners an interactive element carries: each run of
\* initRefinedInteractions adds one (a new function object) to every element
MouseEnterListeners == bindings

\* the pointer enters an interactive element: every listener runs once
MouseEnter ==
    /\ onSite
    /\ hoverTweens' = MouseEnterListeners
    /\ UNCHANGED <<lastIntent, preVars, missing, histVars, phase, viewVars, timers, bindings, sliderVars,
                   menuVars, formVars>>

(***************************************************************************)
(* Contact form.                                                           *)
(***************************************************************************)
FormState ==
    [messageModal |-> messageModal, errorModal |-> errorModal,
     inFlight |-> inFlight, formFilled |-> formFilled]

SetForm(f) ==
    /\ messageModal' = f.messageModal
    /\ errorModal' = f.errorModal
    /\ inFlight' = f.inFlight
    /\ formFilled' = f.formFilled

\* submit listener: preventDefault, then one emailjs.sendForm call
OnSubmit(f) == [f EXCEPT !.inFlight = @ + 1]

\* fulfilment callback: showMessageModal(); this.reset()
OnSendSuccess(f) ==
    [f EXCEPT !.inFlight = @ - 1, !.messageModal = TRUE, !.formFilled = FALSE]

\* variant: the rejection callback sends the form again
OnSendFailureRetries(f) == [f EXCEPT !.errorModal = TRUE]

\* rejection callback: showErrorModal()
OnSendFailure(f) == [f EXCEPT !.inFlight = @ - 1, !.errorModal = TRUE]

formFrame == <<lastIntent, preVars, domVars, histVars, phase, viewVars, timers, bindings, sliderVars, menuVars>>

SubmitForm ==
    /\ onSite /\ "contactForm" \in Installed
    /\ inFlight < MaxInFlight
    /\ SetForm(OnSubmit(FormState))
    /\ UNCHANGED formFrame

SendSucceeded ==
    /\ onSite /\ inFlight > 0
    /\ SetForm(OnSendSuccess(FormState))
    /\ UNCHANGED formFrame

SendFailed ==
    /\ onSite /\ inFlight > 0
    /\ SetForm(OnSendFailure(FormState))
    /\ UNCHANGED formFrame

\* the visitor types into the form
TypeForm ==
    /\ onSite /\ ~formFilled
    /\ formFilled' = TRUE
    /\ UNCHANGED <<formFrame, messageModal, errorModal, inFlight>>

\* closeMessageModal()
CloseMessageModal ==
    /\ onSite /\ messageModal
    /\ messageModal' = FALSE
    /\ UNCHANGED <<formFrame, errorModal, inFlight, formFilled>>

\* closeErrorModal()
CloseErrorModal ==
    /\ onSite /\ errorModal
    /\ errorModal' = FALSE
    /\ UNCHANGED <<formFrame, messageModal, inFlight, formFilled>>

(***************************************************************************)
(* Page loads and session history.                                         *)
(***************************************************************************)
\* classes the markup gives before any script runs
MarkupViewActive == {"view-home"}
MarkupNavActive == {"link-home"}
NoCall == [id |-> NoTarget, before |-> {}, log |-> <<>>]

\* the state once the script has run on a page that lacks the elements of
\* absent, the document being in the given readyState when it ran: a script
\* that runs in a complete document is past both window events
InitAt(absent, readyState) ==
    /\ missing = absent
    /\ hoverTweens = 0
    /\ onSite = TRUE
    /\ \E h \in InitialHashes : history \in {<<h>>, <<EXT, h>>}
    /\ histIdx = Len(history)
    /\ phase = IF readyState = "complete" THEN "loaded" ELSE "parsed"
    /\ viewActive = MarkupViewActive
    /\ navActive = MarkupNavActive
    /\ scrollY = 0
    /\ timers = <<>>
    /\ bindings = 1
    /\ calls = 0
    /\ lastCall = NoCall
    /\ currentProjectIndex = 0
    /\ closures = <<>>
    /\ prevDisabled = FALSE
    /\ nextDisabled = FALSE
    /\ isMenuOpen = FALSE
    /\ menuActive = {}
    /\ messageModal = FALSE
    /\ errorModal = FALSE
    /\ inFlight = 0
    /\ formFilled = FALSE
    /\ lastIntent = NoTarget
    /\ LET p == InitPreloader(absent, readyState)
       IN  /\ count = p.count
           /\ isLoaded = p.isLoaded
           /\ counterInterval = p.counterInterval
           /\ checkLoad = p.checkLoad
           /\ finishCalls = p.finishCalls
           /\ percentText = p.percentText

\* the state once the script has run on a freshly parsed page
InitWith(absent) == InitAt(absent, "loading")

\* a page whose markup holds every element the script looks up
Init == InitWith({})

\* the script runs while the page is parsed or, added later, in a complete document
InitReadyStates == \E readyState \in {"loading", "complete"} : InitAt({}, readyState)

\* a page whose markup lacks at most one of those elements
InitDom == \E absent \in {{}} \cup {{e} : e \in Elements} : InitWith(absent)

\* the document is (re)built and the script runs again
LoadPage(ph) ==
    /\ missing' = missing
    /\ hoverTweens' = 0
    /\ phase' = ph
    /\ viewActive' = MarkupViewActive
    /\ navActive' = MarkupNavActive
    /\ scrollY' = 0
    /\ timers' = <<>>
    /\ bindings' = 1
    /\ calls' = 0
    /\ lastCall' = NoCall
    /\ currentProjectIndex' = 0
    /\ closures' = <<>>
    /\ prevDisabled' = FALSE
    /\ nextDisabled' = FALSE
    /\ isMenuOpen' = FALSE
    /\ menuActive' = {}
    /\ messageModal' = FALSE
    /\ errorModal' = FALSE
    /\ inFlight' = 0
    /\ formFilled' = FALSE
    /\ lastIntent' = NoTarget
    /\ SetPreloader(IF ph = "parsed"
                    THEN InitPreloader(missing, "loading")
                    ELSE [InitPreloader(missing, "loading") EXCEPT !.counterInterval = FALSE])

\* browser back button
Back ==
    /\ onSite /\ phase # "parsed" /\ histIdx > 1
    /\ histIdx' = histIdx - 1
    /\ history' = history
    /\ IF history[histIdx - 1] = EXT
       THEN onSite' = FALSE /\ LoadPage("away")
       ELSE /\ onSite' = TRUE
            /\ UNCHANGED <<lastIntent, preVars, domVars, phase, viewActive, navActive, scrollY, timers, bindings,
                           calls, lastCall, sliderVars, menuVars, formVars>>

\* browser forward button, from the page visited before the site
Forward ==
    /\ ~onSite /\ histIdx < Len(history)
    /\ histIdx' = histIdx + 1
    /\ history' = history
    /\ onSite' = TRUE
    /\ LoadPage("parsed")

\* the view controller, its timers, the mobile menu and the session history
NextViews ==
    \/ DOMContentLoaded
    \/ WindowLoad
    \/ \E id \in Ids : NavClick(id)
    \/ Scroll
    \/ FireTimer
    \/ FireMenuTimer
    \/ \E t \in Ids \cup {NoTarget} : ToggleMobileMenu(t)
    \/ Back
    \/ Forward

\* the projects slider and what re-initialises it
NextSlider ==
    \/ DOMContentLoaded
    \/ WindowLoad
    \/ \E id \in Ids : NavClick(id)
    \/ FireTimer
    \/ NextClick
    \/ PrevClick
    \/ \E x \in TouchXs : TouchStart(x)
    \/ \E x \in TouchXs : TouchEnd(x)
    \/ Resize

\* the contact form
NextForm ==
    \/ SubmitForm
    \/ SendSucceeded
    \/ SendFailed
    \/ TypeForm
    \/ CloseMessageModal
    \/ CloseErrorModal

\* the hover interactions and what re-binds them
NextInteractions ==
    \/ DOMContentLoaded
    \/ \E id \in Ids : NavClick(id)
    \/ FireTimer
    \/ MouseEnter

\* the features of a page that may lack an element
NextDom ==
    \/ DOMContentLoaded
    \/ WindowLoad
    \/ \E id \in Ids : NavClick(id)
    \/ FireTimer
    \/ \E t \in Ids \cup {NoTarget} : ToggleMobileMenu(t)
    \/ FireMenuTimer
    \/ SubmitForm
    \/ SendSucceeded
    \/ SendFailed

\* the preloader and the window events it waits for
NextPreloader ==
    \/ DOMContentLoaded
    \/ WindowLoad
    \/ CounterTick
    \/ CheckLoadTick

Next == NextViews \/ NextSlider \/ NextForm \/ NextInteractions \/ NextDom \/ NextPreloader

\* Every handler of the page.  The form handlers read and write formVars
\* only, the slider handlers sliderVars only, and neither is read by the view
\* controller, so the three parts are also given as specifications of their
\* own: the reachable values of a part's variables are the same in each.
Spec == Init /\ [][Next]_vars
SpecViews == Init /\ [][NextViews]_vars
SpecSlider == Init /\ [][NextSlider]_vars
SpecForm == Init /\ [][NextForm]_vars
SpecInteractions == Init /\ [][NextInteractions]_vars
SpecDom == InitDom /\ [][NextDom]_vars
SpecPreloader == InitReadyStates /\ [][NextPreloader]_vars

\* Timers of the event loop come due while they stay registered, and the
\* browser delivers DOMContentLoaded and load to a page it is loading.
SpecPreloaderFair ==
    /\ SpecPreloader
    /\ WF_vars(CounterTick)
    /\ WF_vars(CheckLoadTick)
    /\ WF_vars(DOMContentLoaded)
    /\ WF_vars(WindowLoad)

(***************************************************************************)
(* Properties.                                                             *)
(***************************************************************************)
\* the view element an identifier names, NULL when the page has none
ViewOf(id) == GetElementById("view-" \o id)

\* C1: after showView(id) with view-<id> in the page, exactly one view is
\* marked active and it is view-<id>.  (Only showView changes the views, so
\* the state after the latest call is the state the call ended in.)
KnownIdActivatesExactlyThatView ==
    (calls > 0 /\ ViewOf(lastCall.id) # NULL)
        => /\ Cardinality(viewActive) = 1
           /\ viewActive = {"view-" \o lastCall.id}

\* C1 witness: a transition from the projects view into the about view
ReachedAboutFromProjects ==
    /\ calls >= 2
    /\ lastCall.id = "about"
    /\ lastCall.before = {"view-projects"}
    /\ viewActive = {"view-about"}

\* C2: after showView(id) with no view-<id> in the page, the view that was
\* active before the call is still the active one.
UnknownIdLeavesActiveView ==
    (calls > 0 /\ ViewOf(lastCall.id) = NULL) => viewActive = lastCall.before

\* C3: once startup has run, at most one view is marked active, and the
\* fragment of the address bar is "#" followed by the active view's identifier.
AtMostOneActiveAndFragmentNamesIt ==
    phase \in {"ready", "loaded"}
        => /\ Cardinality(viewActive) <= 1
           /\ \A v \in Views :
                ("view-" \o v) \in viewActive => LocationHash = <<"#", v>>

\* C3 witness: the projects view is active after several calls, the last of
\* which left another view
FragmentFollowedSecondTransition ==
    /\ calls >= 3
    /\ viewActive = {"view-projects"}
    /\ lastCall.before = {"view-about"}
    /\ LocationHash = <<"#", "projects">>

\* C4: no step adds, removes or rewrites another history entry: the history
\* keeps its length, only the current entry's fragment changes, and going
\* back from the page leaves the site.
NoHistoryEntryAdded ==
    [][ /\ Len(history') = Len(history)
        /\ \A i \in 1..Len(history) : i # histIdx => history'[i] = history[i]
        /\ (onSite /\ histIdx' < histIdx) => ~onSite' ]_vars

\* C4 witness: two transitions after startup, the site still a single entry
\* behind which the page visited before lies
TwoTransitionsOneEntry ==
    /\ calls = 3
    /\ ViewOf(lastCall.id) # NULL
    /\ lastCall.before # {} /\ lastCall.before # {"view-" \o lastCall.id}
    /\ history = <<EXT, <<"#", lastCall.id>>>>
    /\ histIdx = 2

\* the view the fragment names, "home" when it names none
FragmentView ==
    IF \E v \in Views : LocationHash = <<"#", v>>
    THEN CHOOSE v \in Views : LocationHash = <<"#", v>>
    ELSE "home"

\* C5: the DOMContentLoaded step ends with the view named by the fragment
\* active when the fragment names a view of the page, and with home active
\* when the fragment is empty or names no view.
StartupShowsFragmentViewOrHome ==
    [][ (phase = "parsed" /\ phase' = "ready")
            => viewActive' = {"view-" \o FragmentView} ]_vars

\* C5 witness: the page was opened with #about and startup has just run
StartedOnAbout ==
    /\ phase = "ready"
    /\ calls = 1
    /\ timers # <<>>
    /\ viewActive = {"view-about"}

\* C6: the carousel index is a valid slide index in every state.
IndexWithinSlides ==
    0 <= currentProjectIndex /\ currentProjectIndex < NumSlides

\* C6 witness: the last slide reached by a drag after the slider was
\* initialised more than once
LastSlideAfterReinit ==
    /\ Len(closures) >= 2
    /\ currentProjectIndex = NumSlides - 1
    /\ \E i \in 1..Len(closures) : closures[i].startX = 100

\* a completed drag to the right (retreat) or to the left (advance)
RightDrag ==
    \E x \in TouchXs :
        /\ TouchEnd(x)
        /\ \E i \in 1..Len(closures) :
             closures[i].isDragging /\ closures[i].startX - x < 0 - DragThreshold
LeftDrag ==
    \E x \in TouchXs :
        /\ TouchEnd(x)
        /\ \E i \in 1..Len(closures) :
             closures[i].isDragging /\ closures[i].startX - x > DragThreshold

\* C7: a retreat at index 0 and an advance at the last index leave the index
\* where it is, and once the slider has been updated the retreat control of
\* the page is disabled exactly at index 0 and the advance control exactly at
\* the last index.
SliderClampsAndDisablesAtEnds ==
    [][ /\ (currentProjectIndex = 0 /\ (PrevClick \/ RightDrag))
              => currentProjectIndex' = 0
        /\ (currentProjectIndex = NumSlides - 1 /\ (NextClick \/ LeftDrag))
              => currentProjectIndex' = NumSlides - 1
        /\ closures' # <<>>
              => /\ prevDisabled' <=> (currentProjectIndex' = 0)
                 /\ nextDisabled' <=> (currentProjectIndex' = NumSlides - 1) ]_vars

\* C8: when a submission's send settles, exactly one of the success and the
\* error indicator is visible.
ExactlyOneIndicatorVisible ==
    [][ (SendSucceeded \/ SendFailed)
            => \/ (messageModal' /\ ~errorModal')
               \/ (errorModal' /\ ~messageModal') ]_vars

\* C9: a submission makes one send; a fulfilled send shows the success
\* indicator and clears the form; a rejected send shows the error indicator,
\* keeps the form and makes no new send; sends start only from submissions.
OneSendPerSubmissionNoRetry ==
    [][ /\ SubmitForm => inFlight' = inFlight + 1
        /\ SendSucceeded
              => messageModal' /\ ~formFilled' /\ inFlight' = inFlight - 1
        /\ SendFailed
              => errorModal' /\ formFilled' = formFilled /\ inFlight' = inFlight - 1
        /\ inFlight' > inFlight => SubmitForm ]_vars

\* C9 witness: a rejected send left the error indicator up and the form filled
FailedSendKeptForm ==
    /\ errorModal /\ ~messageModal
    /\ formFilled
    /\ inFlight = 0

\* number of animateBadge invocations in a call's steps
HookRuns(log) == Cardinality({i \in 1..Len(log) : log[i] = "animateBadge"})

\* C10: a showView call, wrappers included, invokes animateBadge once and
\* after the view was marked active when it enters the about view, and not
\* at all when it enters another view or names no view.
HookOncePerEntryIntoAbout ==
    calls > 0 =>
        IF lastCall.id = "about" /\ ViewOf(lastCall.id) # NULL
        THEN /\ HookRuns(lastCall.log) = 1
             /\ \E i, j \in 1..Len(lastCall.log) :
                  /\ i < j
                  /\ lastCall.log[i] = "activateView"
                  /\ lastCall.log[j] = "animateBadge"
        ELSE HookRuns(lastCall.log) = 0

\* C10 witness: the about view entered from home after startup, the hook run once
AboutEnteredFromHome ==
    /\ calls >= 2
    /\ lastCall.id = "about"
    /\ lastCall.before = {"view-home"}
    /\ HookRuns(lastCall.log) = 1

\* pending 100 ms timers that will run set-up routine fn
SetupTimers(seq, fn) ==
    Cardinality({i \in 1..Len(seq) : seq[i].fn = fn /\ seq[i].delay = 100})

\* C11 as stated: every showView call schedules one delayed run of each of
\* the two set-up routines, whatever the identifier.
EveryCallSchedulesEverySetup ==
    [][ calls' = calls + 1
          => /\ SetupTimers(timers', "initRefinedInteractions")
                  = SetupTimers(timers, "initRefinedInteractions") + 1
             /\ SetupTimers(timers', "initProjectsSlider")
                  = SetupTimers(timers, "initProjectsSlider") + 1 ]_vars

\* C11 amended: every showView call schedules one delayed run of
\* initRefinedInteractions, whatever the identifier, and one delayed run of
\* initProjectsSlider exactly when the identifier is "projects".
SetupScheduledPerCall ==
    [][ calls' = calls + 1
          => /\ SetupTimers(timers', "initRefinedInteractions")
                  = SetupTimers(timers, "initRefinedInteractions") + 1
             /\ SetupTimers(timers', "initProjectsSlider")
                  = SetupTimers(timers, "initProjectsSlider")
                      + (IF lastCall'.id = "projects" THEN 1 ELSE 0) ]_vars

\* C11 witness: the page opened on projects, then about was entered before
\* any timer came due: two runs of the first routine, one of the second
ScheduledAfterProjectsThenAbout ==
    /\ calls = 2
    /\ lastCall.id = "about"
    /\ Len(timers) = 3
    /\ timers[1].fn = "initRefinedInteractions"
    /\ timers[2].fn = "initProjectsSlider"
    /\ timers[3].fn = "initRefinedInteractions"

\* C12: however often the set-up routines have run, one mouseenter runs the
\* hover handler of its element once, and the track carries the touch
\* listeners of one initProjectsSlider run.
RebindingIsIdempotent ==
    /\ hoverTweens <= 1
    /\ Len(closures) <= 1

\* C13: once the page is ready, every feature whose own element is present
\* is set up, whichever other element is absent, and once the window has
\* loaded a slider whose elements are present is initialised.
OtherFeaturesStillSetUp ==
    /\ phase \in {"ready", "loaded"}
         => \A k \in 1..Len(Sections) :
              Sections[k].needs \notin missing => Sections[k].feature \in Installed
    /\ (phase = "loaded" /\ {"projects-track", "projects-prev"} \cap missing = {})
         => closures # <<>>

\* the order C14 gives to the steps of a successful call
StepOrder ==
    << "hideViews", "clearNav", "activateView", "activateLink", "replaceState",
       "scrollTo", "gsapFrom", "animateBadge", "refresh",
       "setTimeout:initRefinedInteractions", "setTimeout:initProjectsSlider" >>

\* the steps every successful call takes
MandatorySteps ==
    { "hideViews", "clearNav", "activateView", "replaceState", "scrollTo",
      "gsapFrom", "refresh", "setTimeout:initRefinedInteractions" }

RECURSIVE InOrder(_, _)
\* log lists some of the steps of order, each once, in the order of order
InOrder(log, order) ==
    IF log = <<>> THEN TRUE
    ELSE IF order = <<>> THEN FALSE
    ELSE IF Head(log) = Head(order) THEN InOrder(Tail(log), Tail(order))
    ELSE InOrder(log, Tail(order))

\* C14: a showView call with a known identifier takes its steps in the
\* order deactivate, activate, replace fragment, scroll to top, entrance
\* animation, hook, refresh, and only then schedules the set-up routines,
\* none of which runs within the call.
StepsInFixedOrder ==
    [][ (calls' = calls + 1 /\ ViewOf(lastCall'.id) # NULL)
          => /\ InOrder(lastCall'.log, StepOrder)
             /\ MandatorySteps \subseteq
                  {lastCall'.log[i] : i \in 1..Len(lastCall'.log)}
             /\ bindings' = bindings
             /\ closures' = closures ]_vars

\* C14 witness: projects entered after startup, its ten steps taken and
\* the set-up routines scheduled, not yet run
ProjectsEnteredSetupPending ==
    /\ calls >= 2
    /\ lastCall.id = "projects"
    /\ Len(lastCall.log) = 10
    /\ SetupTimers(timers, "initProjectsSlider") >= 1
    /\ bindings = 1

\* a navigation intent arrives from a link or from an item of the open menu
LinkIntent == \E id \in Ids : NavClick(id)
MenuIntent == \E t \in Ids : isMenuOpen /\ ToggleMobileMenu(t)

\* C15 as stated: when a navigation intent arrives, no earlier intent's view
\* switch is still waiting to be made.
NoIntentDeferredPastLater ==
    [][ (LinkIntent \/ MenuIntent) => PendingShowViews = 0 ]_vars

\* C15 amended: a link click and the initial load make their showView call
\* within the event and leave nothing of it pending; a selection in the open
\* mobile menu makes no call and changes no view, it only queues the call
\* behind a 500 ms timer, where it waits while later intents are processed.
OnlyMenuIntentIsDeferred ==
    [][ /\ \A id \in Ids :
             NavClick(id)
               => /\ calls' = calls + 1 /\ lastCall'.id = id
                  /\ PendingShowViews' = PendingShowViews
        /\ DOMContentLoaded
             => calls' = calls + 1 /\ PendingShowViews' = PendingShowViews
        /\ \A t \in Ids :
             (isMenuOpen /\ ToggleMobileMenu(t))
               => /\ calls' = calls /\ viewActive' = viewActive
                  /\ timers' = Append(timers, Timer("showView", t, 500)) ]_vars

\* C15 witness: a menu selection still pending after a later showView call
\* was made (its set-up timer was registered after the menu's timer)
LaterIntentProcessedWhileMenuPending ==
    \E i, j \in 1..Len(timers) :
        /\ i < j
        /\ timers[i].fn = "showView"
        /\ timers[j].fn = "initRefinedInteractions"

\* the navigation item of a view, NULL if the markup has none
LinkOf(id) == GetElementById("link-" \o id)

\* C16: at most one navigation item is active, an active link-<id> means
\* view-<id> is the one active view, and a showView(id) that found its view
\* and has a link-<id> leaves exactly that item active.
OneIndicatorMatchingActiveView ==
    /\ Cardinality(navActive) <= 1
    /\ \A v \in Views :
         ("link-" \o v) \in navActive => viewActive = {"view-" \o v}
    /\ (calls >= 1 /\ ViewOf(lastCall.id) # NULL /\ LinkOf(lastCall.id) # NULL)
         => navActive = {LinkOf(lastCall.id)}

\* C16 witness: showView('projects') moved the indicator from home
IndicatorMovedToProjects ==
    /\ lastCall.id = "projects"
    /\ lastCall.before = {"view-home"}
    /\ navActive = {"link-projects"}
    /\ viewActive = {"view-projects"}

\* steps showView takes only for a view it found
TransitionSteps == {"replaceState", "scrollTo", "gsapFrom", "animateBadge", "refresh"}

\* C17: a showView call whose identifier names no view leaves the session
\* history (and with it the fragment) and the scroll position as they were,
\* and starts no entrance animation, no view-specific animation and no
\* ScrollTrigger refresh.
UnknownIdKeepsUrlAndScroll ==
    [][ (calls' = calls + 1 /\ ViewOf(lastCall'.id) = NULL)
          => /\ history' = history
             /\ histIdx' = histIdx
             /\ scrollY' = scrollY
             /\ \A i \in 1..Len(lastCall'.log) :
                  lastCall'.log[i] \notin TransitionSteps ]_vars

\* C17 witness: showView('nope') on a page scrolled down, after an earlier
\* call had set the fragment
UnknownIdCalledWhileScrolled ==
    /\ calls >= 2
    /\ lastCall.id = "nope"
    /\ scrollY = 1
    /\ LocationHash # <<>>

\* C18: a selection in the open menu closes the menu and registers one
\* 500 ms timer for the selected view without touching the views; when that
\* timer comes due it is removed and showView runs once for the selected
\* view; toggleMobileMenu() without a target only flips the menu and leaves
\* the views, the pending timers and the call count alone.
MenuSelectionClosesThenShowsOnce ==
    [][ /\ \A t \in Ids :
             (isMenuOpen /\ ToggleMobileMenu(t))
               => /\ ~isMenuOpen' /\ menuActive' = {}
                  /\ Len(timers') = Len(timers) + 1
                  /\ timers'[Len(timers')] = Timer("showView", t, 500)
                  /\ PendingShowViews' = PendingShowViews + 1
                  /\ UNCHANGED <<viewActive, navActive, calls>>
        /\ ToggleMobileMenu(NoTarget)
               => /\ isMenuOpen' = ~isMenuOpen
                  /\ UNCHANGED <<viewActive, navActive, calls, timers>>
        /\ FireMenuTimer
               => /\ calls' = calls + 1
                  /\ PendingShowViews' = PendingShowViews - 1
                  /\ \E i \in 1..Len(timers) :
                       timers[i] = Timer("showView", lastCall'.id, 500)
                  /\ ViewOf(lastCall'.id) # NULL
                       => viewActive' = {ViewOf(lastCall'.id)} ]_vars

\* C18 witness: the menu was closed by selecting 'about'; the view shown is
\* still home and the deferred call is pending
AboutSelectedMenuClosed ==
    /\ ~isMenuOpen /\ menuActive = {}
    /\ viewActive = {"view-home"}
    /\ \E i \in 1..Len(timers) : timers[i] = Timer("showView", "about", 500)

\* C19: isMenuOpen holds exactly when menuTrigger and navOverlay both carry
\* 'active' (and neither carries it when the flag is false), and every call
\* of toggleMobileMenu, with or without a target view, flips the flag.
MenuFlagAgreesWithClasses ==
    /\ [](/\ isMenuOpen <=> menuActive = MenuElements
          /\ ~isMenuOpen <=> menuActive = {})
    /\ [][ (\E t \in Ids \cup {NoTarget} : ToggleMobileMenu(t))
             => isMenuOpen' = ~isMenuOpen ]_vars

\* C19 witness: the menu is open again after a selection with a target view
\* had closed it
MenuReopenedAfterSelection ==
    /\ isMenuOpen /\ menuActive = MenuElements
    /\ PendingShowViews >= 1

\* C20: a touchend that completes a drag on the track moves the carousel
\* index by at most one, however often the slider was initialised before.
DragMovesAtMostOneSlide ==
    [][ (\E x \in TouchXs : TouchEnd(x))
          => Abs(currentProjectIndex' - currentProjectIndex) <= 1 ]_vars

\* C21: once no timer is pending, the view shown is the one the latest
\* navigation intent naming a view asked for.  (Stated for the states whose
\* latest showView call named a view, so that a call with an unknown
\* identifier, which hides every view, is not what the formula rejects.)
LatestIntentWins ==
    (timers = <<>> /\ calls >= 1 /\ ViewOf(lastCall.id) # NULL)
        => viewActive = {ViewOf(lastIntent)}

\* the number .loader-progress shows once the script has written it
Displayed == percentText[1]

\* C22: the counter and the number displayed never go down and never pass
\* 100, and finishLoading runs at most once, in a step that starts with the
\* counter at 100 and the load event observed.
CounterMonotoneFinishOnce ==
    /\ [](/\ count <= CounterTarget
          /\ percentText # MarkupText => Displayed <= CounterTarget
          /\ finishCalls <= 1)
    /\ [][ /\ count' >= count
           /\ (percentText # MarkupText /\ percentText' # MarkupText)
                => Displayed' >= Displayed
           /\ percentText' # percentText => percentText' # MarkupText
           /\ finishCalls' # finishCalls
                => /\ finishCalls' = finishCalls + 1
                   /\ count = CounterTarget /\ isLoaded ]_vars

\* C22 witness: finishLoading has run on a page that was still loading when
\* the script ran, the display showing 100%
FinishedAfterLoadEvent ==
    /\ finishCalls = 1
    /\ percentText = PercentText(CounterTarget)
    /\ calls = 1 /\ phase = "loaded"

\* C23: the counter reaches 100, both intervals are cleared and
\* finishLoading has run, eventually and from then on.
PreloaderFinishes ==
    <>[](/\ count = CounterTarget
         /\ ~counterInterval /\ ~checkLoad
         /\ finishCalls = 1)

\* C23 witness: the preloader finished in a document that was already
\* complete when the script ran (no window event was delivered to it)
FinishedInCompleteDocument ==
    /\ calls = 0 /\ phase = "loaded"
    /\ count = CounterTarget /\ finishCalls = 1
    /\ ~counterInterval /\ ~checkLoad

====
